---- MODULE Spec2Model ----
(***************************************************************************)
(* flux: a dataflow Graph (data artifacts + functions) is rendered into a  *)
(* Graphviz description.  The model follows src/main.rs: render() derives   *)
(* the owner roster and the owner -> colour map, accumulates the output     *)
(* lines in a DotBuilder, and DotBuilder::render writes them one by one to  *)
(* the sink; main turns the result into the process exit status.            *)
(*                                                                          *)
(* Strings are TLA+ strings; Rust's String ordering (byte order) is the     *)
(* lexicographic order over the ASCII table below.                          *)
(***************************************************************************)
EXTENDS Integers, Sequences, FiniteSets

VARIABLES graph, pc, owners, colours, lines, written, attempts, result, status, prev

vars == <<graph, pc, owners, colours, lines, written, attempts, result, status, prev>>

(***************************************************************************)
(* Bounds of the explored inputs.                                           *)
(***************************************************************************)
\* length of the non-empty data list of a small graph
MaxData == 2
\* longest function list of a small graph
MaxFuncs == 2
\* most distinct owners of a wide graph (one function per owner)
MaxOwners == 9
\* number of hash seeds explored for a HashMap's iteration order
MaxSeed == 6

(***************************************************************************)
(* String and sequence helpers: the std operations the program relies on.  *)
(***************************************************************************)
\* printable ASCII in byte order: codes 32..95, then 97..126 (code 96, the
\* backquote, is not used by any name of the model)
AsciiLow == " !\"#$%&'()*+,-./0123456789:;<=>?@ABCDEFGHIJKLMNOPQRSTUVWXYZ[\\]^_"

AsciiHigh == "abcdefghijklmnopqrstuvwxyz{|}~"

CharAt(s, i) == SubSeq(s, i, i)

\* the byte value of a one-character string
Ord(c) ==
    IF \E i \in 1..Len(AsciiLow) : CharAt(AsciiLow, i) = c
    THEN 31 + (CHOOSE i \in 1..Len(AsciiLow) : CharAt(AsciiLow, i) = c)
    ELSE 96 + (CHOOSE i \in 1..Len(AsciiHigh) : CharAt(AsciiHigh, i) = c)

RECURSIVE StrLessFrom(_, _, _)
StrLessFrom(a, b, i) ==
    IF i > Len(b) THEN FALSE
    ELSE IF i > Len(a) THEN TRUE
    ELSE IF CharAt(a, i) = CharAt(b, i) THEN StrLessFrom(a, b, i + 1)
    ELSE Ord(CharAt(a, i)) < Ord(CharAt(b, i))

\* a < b for Rust Strings: lexicographic by byte, a proper prefix is smaller
StrLess(a, b) == StrLessFrom(a, b, 1)

Range(s) == {s[i] : i \in 1..Len(s)}

RECURSIVE InsertSorted(_, _)
InsertSorted(s, x) ==
    IF s = <<>> THEN <<x>>
    ELSE IF StrLess(x, Head(s)) THEN <<x>> \o s
    ELSE <<Head(s)>> \o InsertSorted(Tail(s), x)

RECURSIVE SortFrom(_, _, _)
SortFrom(s, i, acc) ==
    IF i > Len(s) THEN acc ELSE SortFrom(s, i + 1, InsertSorted(acc, s[i]))

\* Vec<String>::sort(): a stable ascending sort
Sort(s) == SortFrom(s, 1, <<>>)

RECURSIVE DedupFrom(_, _, _)
DedupFrom(s, i, acc) ==
    IF i > Len(s) THEN acc
    ELSE IF acc # <<>> /\ acc[Len(acc)] = s[i] THEN DedupFrom(s, i + 1, acc)
    ELSE DedupFrom(s, i + 1, Append(acc, s[i]))

\* Vec::dedup(): removes consecutive repeated elements
Dedup(s) == DedupFrom(s, 1, <<>>)

RECURSIVE Join(_, _)
\* [String]::join(sep)
Join(s, sep) ==
    IF s = <<>> THEN ""
    ELSE IF Len(s) = 1 THEN s[1]
    ELSE s[1] \o sep \o Join(Tail(s), sep)

Digits == "0123456789"

RECURSIVE UsizeToString(_)
\* usize::to_string(): decimal, no padding
UsizeToString(n) ==
    IF n < 10 THEN CharAt(Digits, n + 1)
    ELSE UsizeToString(n \div 10) \o CharAt(Digits, (n % 10) + 1)

RECURSIVE SetToSeq(_)
\* the elements of a set in some order
SetToSeq(S) ==
    IF S = {} THEN <<>>
    ELSE LET x == CHOOSE x \in S : TRUE IN <<x>> \o SetToSeq(S \ {x})

RECURSIVE Concat(_)
Concat(ss) == IF ss = <<>> THEN <<>> ELSE Head(ss) \o Concat(Tail(ss))

\* the empty HashMap<String, String>
EmptyMap == [k \in {} |-> ""]

\* HashMap::insert
MapInsert(m, k, v) == [x \in DOMAIN m \cup {k} |-> IF x = k THEN v ELSE m[x]]

RemoveAt(s, i) == SubSeq(s, 1, i - 1) \o SubSeq(s, i + 1, Len(s))

RECURSIVE NthPermutation(_, _)
NthPermutation(s, n) ==
    IF s = <<>> THEN <<>>
    ELSE LET k == (n % Len(s)) + 1
         IN <<s[k]>> \o NthPermutation(RemoveAt(s, k), n \div Len(s))

\* The order in which a std HashMap with the given RandomState seed visits
\* its keys.  The hasher is keyed at random per map, so every order of the
\* keys is possible; the seed selects one of them (seed n selects the n-th
\* permutation of the keys, so MaxSeed seeds give every order of up to three
\* keys and MaxSeed different orders of more keys).
HashIter(m, seed) == NthPermutation(Sort(SetToSeq(DOMAIN m)), seed)

(***************************************************************************)
(* The document model (struct Graph, Data, Function) and the explored      *)
(* inputs.                                                                  *)
(***************************************************************************)
Data(name, source) == [name |-> name, source |-> source]

Function(name, owner, inputs, outputs) ==
    [name |-> name, owner |-> owner, inputs |-> inputs, outputs |-> outputs]

Graph(data, functions) == [data |-> data, functions |-> functions]

\* data artifacts of the small graphs, in declaration order
DataPool == <<Data("A", "crm"), Data("B", "billing"), Data("C", "crm"), Data("D", "ops")>>

\* functions of the small graphs: F is the spec's scenario; H reads an
\* undeclared artifact and writes nothing; K reads nothing
FunctionPool ==
    { Function("F", "svc1", <<"A">>, <<"B">>),
      Function("H", "Batch", <<"A", "ghost">>, <<>>),
      Function("K", "svc", <<>>, <<"B", "A">>) }

RECURSIVE SeqsUpTo(_, _)
\* all sequences over S of length at most n
SeqsUpTo(S, n) ==
    IF n = 0 THEN {<<>>}
    ELSE LET shorter == SeqsUpTo(S, n - 1)
         IN shorter \cup {Append(s, x) : s \in shorter, x \in S}

\* no data artifact or the first MaxData of the pool, with every function
\* list of at most MaxFuncs pool functions
SmallGraphs ==
    { Graph(SubSeq(DataPool, 1, d), fs) :
        d \in {0, MaxData}, fs \in SeqsUpTo(FunctionPool, MaxFuncs) }

\* one function per owner svc1, svc2, ..., svc<n>, no edges
WideGraph(n) ==
    Graph(<<>>, [i \in 1..n |->
        Function("f" \o UsizeToString(i), "svc" \o UsizeToString(i), <<>>, <<>>)])

WideGraphs == { WideGraph(n) : n \in 1..MaxOwners }

Graphs == SmallGraphs \cup WideGraphs

Reverse(s) == [i \in 1..Len(s) |-> s[Len(s) + 1 - i]]

\* Graphs with the same set of owners as g: g itself, its function list
\* reversed or rotated, one more function of an owner already present, and
\* one function fewer of an owner that keeps another function.
Variants(g) ==
    LET fs == g.functions
    IN {g}
       \cup (IF fs = <<>> THEN {} ELSE
               { Graph(g.data, Reverse(fs)),
                 Graph(g.data, Append(Tail(fs), Head(fs))),
                 Graph(g.data, Append(fs, Function("dup", fs[1].owner, <<>>, <<>>))) })
       \cup { Graph(g.data, RemoveAt(fs, i)) :
                i \in {j \in 1..Len(fs) :
                         \E k \in 1..Len(fs) : k # j /\ fs[k].owner = fs[j].owner} }

(***************************************************************************)
(* Shape, Style, ColorScheme and Node.                                      *)
(***************************************************************************)
ShapeToString(shape) == CASE shape = "Ellipse" -> "ellipse"

StyleToString(style) == CASE style = "Filled" -> "filled"

ColorSchemeToString(scheme) == CASE scheme = "Dark28" -> "dark28"

NodeNew(name) == [name |-> name, attributes |-> EmptyMap]

NodeAttribute(node, name, value) ==
    [node EXCEPT !.attributes = MapInsert(node.attributes, name, value)]

NodeStyle(node, style) == NodeAttribute(node, "style", StyleToString(style))

NodeShape(node, shape) == NodeAttribute(node, "shape", ShapeToString(shape))

NodeFillcolor(node, scheme, color) ==
    NodeAttribute(node, "fillcolor",
                  "\"/" \o ColorSchemeToString(scheme) \o "/" \o color \o "\"")

\* Node::to_string: the "k=v" strings of the attributes, sorted, joined
NodeToString(node) ==
    LET attrs == Sort(SetToSeq({k \o "=" \o node.attributes[k] :
                                  k \in DOMAIN node.attributes}))
    IN node.name \o "[" \o Join(attrs, "=") \o "];"

(***************************************************************************)
(* render: owner roster, colour map, output lines.                          *)
(***************************************************************************)
NUM_COLOURS == 8

\* Owners without the sort: dedup then removes adjacent repeats only
OwnersUnsorted(functions) ==
    Dedup([i \in 1..Len(functions) |-> functions[i].owner])

\* lines 161-168: the owners of all functions, sorted and deduplicated
Owners(functions) ==
    Dedup(Sort([i \in 1..Len(functions) |-> functions[i].owner]))

\* ColourIndex without the wraparound
ColourIndexNoWrap(count) == count + 1

\* line 174
ColourIndex(count) == (count % NUM_COLOURS) + 1

\* Colours with the roster cut to the palette size before it is enumerated
ColoursTruncated(os) ==
    [o \in Range(SubSeq(os, 1, IF Len(os) < NUM_COLOURS THEN Len(os) ELSE NUM_COLOURS)) |->
        LET last == CHOOSE i \in 1..Len(os) :
                        os[i] = o /\ \A j \in (i + 1)..Len(os) : os[j] # o
        IN UsizeToString(ColourIndex(last - 1))]

\* lines 170-178: collect() of (owner, colour) pairs; for a repeated key
\* the last pair wins
Colours(os) ==
    [o \in Range(os) |->
        LET last == CHOOSE i \in 1..Len(os) :
                        os[i] = o /\ \A j \in (i + 1)..Len(os) : os[j] # o
        IN UsizeToString(ColourIndex(last - 1))]

DataLine(d) == d.name \o " [shape=box]"

FunctionNodeLine(f, cs) ==
    NodeToString(NodeFillcolor(NodeStyle(NodeShape(NodeNew(f.name), "Ellipse"),
                                         "Filled"),
                               "Dark28", cs[f.owner]))

InputEdge(i, f) == i \o " -> " \o f.name

\* OutputEdge with the endpoints swapped
OutputEdgeReversed(f, o) == o \o " -> " \o f.name

OutputEdge(f, o) == f.name \o " -> " \o o

\* lines 186-207, one function
FunctionLines(f, cs) ==
    <<FunctionNodeLine(f, cs)>>
    \o [i \in 1..Len(f.inputs) |-> InputEdge(f.inputs[i], f)]
    \o [i \in 1..Len(f.outputs) |-> OutputEdge(f, f.outputs[i])]

LegendNodeLine(name, color) ==
    "legend_" \o name \o " [label=" \o name \o ",style=filled,fillcolor=" \o color \o "]"

\* ExtendOrdering without the test for the first legend node
ExtendOrderingAlways(ordering, name) == ordering \o "->" \o "legend_" \o name

\* lines 219-222
ExtendOrdering(ordering, name) ==
    (IF ordering # "" THEN ordering \o "->" ELSE ordering) \o "legend_" \o name

RECURSIVE LegendOrdering(_, _, _)
LegendOrdering(keys, i, ordering) ==
    IF i > Len(keys) THEN ordering
    ELSE LegendOrdering(keys, i + 1, ExtendOrdering(ordering, keys[i]))

\* lines 208-227: the legend block and the closing lines, the map visited
\* in the order keys
LegendLines(cs, keys) ==
    <<"subgraph cluster_legend {{", "label=\"Legend\"", "rankdir=TB">>
    \o [i \in 1..Len(keys) |-> LegendNodeLine(keys[i], cs[keys[i]])]
    \o <<LegendOrdering(keys, 1, "") \o "[style=invis]">>
    \o <<"}}", "}}">>

\* lines 180-227: everything the DotBuilder holds when g.render is called
BuildLines(g, cs, keys) ==
    <<"digraph G {{">>
    \o [i \in 1..Len(g.data) |-> DataLine(g.data[i])]
    \o Concat([i \in 1..Len(g.functions) |-> FunctionLines(g.functions[i], cs)])
    \o LegendLines(cs, keys)

\* main, lines 24-25: Err(ExitFailure) ends the process with status 1
ExitStatus(r) == IF r = "Ok" THEN 0 ELSE 1

NoRender == [valid |-> FALSE, graph |-> Graph(<<>>, <<>>), colours |-> EmptyMap, lines |-> <<>>]

(***************************************************************************)
(* The state machine: one invocation of main, optionally followed by a     *)
(* second invocation on a graph with the same owners, whose render is      *)
(* compared with the first.                                                 *)
(***************************************************************************)
Init ==
    /\ graph \in Graphs
    /\ pc = "render"
    /\ owners = <<>>
    /\ colours = EmptyMap
    /\ lines = <<>>
    /\ written = <<>>
    /\ attempts = 0
    /\ result = "none"
    /\ status = -1
    /\ prev = NoRender

\* render, lines 158-227: roster, colour map and the builder's lines.  The
\* index colours[&f.owner] panics when the map has no such key.
Build ==
    /\ pc = "render"
    /\ \E seed \in 0..(MaxSeed - 1) :
         LET os == Owners(graph.functions)
             cs == Colours(os)
         IN /\ owners' = os
            /\ colours' = cs
            /\ IF \A i \in 1..Len(graph.functions) : graph.functions[i].owner \in DOMAIN cs
               THEN /\ lines' = BuildLines(graph, cs, HashIter(cs, seed))
                    /\ pc' = "write"
               ELSE /\ lines' = <<>>
                    /\ pc' = "panic"
    /\ UNCHANGED <<graph, written, attempts, result, status, prev>>

\* WriteLine with the result of writeln! dropped: the loop goes on after a
\* rejected write
WriteLineIgnoringError ==
    /\ pc = "write"
    /\ attempts < Len(lines)
    /\ attempts' = attempts + 1
    /\ \E accepted \in BOOLEAN :
         IF accepted
         THEN written' = Append(written, lines[attempts + 1])
         ELSE UNCHANGED written
    /\ UNCHANGED <<graph, pc, owners, colours, lines, result, status, prev>>

\* DotBuilder::render, lines 46-48: writeln! of the next line; the sink
\* accepts it or rejects it, and ? returns the error at once
WriteLine ==
    /\ pc = "write"
    /\ attempts < Len(lines)
    /\ attempts' = attempts + 1
    /\ \E accepted \in BOOLEAN :
         IF accepted
         THEN /\ written' = Append(written, lines[attempts + 1])
              /\ UNCHANGED <<result, pc>>
         ELSE /\ result' = "Err"
              /\ pc' = "return"
              /\ UNCHANGED written
    /\ UNCHANGED <<graph, owners, colours, lines, status, prev>>

\* DotBuilder::render line 49 and render lines 229-231: all lines written
RenderOk ==
    /\ pc = "write"
    /\ attempts = Len(lines)
    /\ result' = "Ok"
    /\ pc' = "return"
    /\ UNCHANGED <<graph, owners, colours, lines, written, attempts, status, prev>>

\* main, lines 24-25
Exit ==
    /\ pc = "return"
    /\ status' = ExitStatus(result)
    /\ pc' = "exit"
    /\ UNCHANGED <<graph, owners, colours, lines, written, attempts, result, prev>>

\* a second invocation, after a complete first one, on a variant of its graph
Rerun ==
    /\ pc = "exit"
    /\ status = 0
    /\ ~prev.valid
    /\ prev' = [valid |-> TRUE, graph |-> graph, colours |-> colours, lines |-> lines]
    /\ graph' \in Variants(graph)
    /\ pc' = "render"
    /\ owners' = <<>>
    /\ colours' = EmptyMap
    /\ lines' = <<>>
    /\ written' = <<>>
    /\ attempts' = 0
    /\ result' = "none"
    /\ status' = -1

Next == Build \/ WriteLine \/ RenderOk \/ Exit \/ Rerun

Spec == Init /\ [][Next]_vars

TypeOK ==
    /\ pc \in {"render", "write", "return", "exit", "panic"}
    /\ result \in {"none", "Ok", "Err"}
    /\ attempts \in 0..Len(lines)

(***************************************************************************)
(* Vocabulary of the properties.                                            *)
(***************************************************************************)
\* render has built its colour map and its lines; neither changes afterwards
Rendered == pc \in {"write", "return", "exit"}

\* the state in which render hands the complete builder to DotBuilder::render
Built == pc = "write" /\ attempts = 0

OwnerSet(g) == {g.functions[i].owner : i \in 1..Len(g.functions)}

\* 0-based position of owner o in the ascending list of the owners of g
Rank(g, o) == Cardinality({p \in OwnerSet(g) : StrLess(p, o)})

StartsWith(s, p) == Len(p) <= Len(s) /\ SubSeq(s, 1, Len(p)) = p

EndsWith(s, p) == Len(p) <= Len(s) /\ SubSeq(s, Len(s) - Len(p) + 1, Len(s)) = p

Occurrences(s, sub) ==
    {i \in 1..(Len(s) - Len(sub) + 1) : SubSeq(s, i, i + Len(sub) - 1) = sub}

Contains(s, sub) == Occurrences(s, sub) # {}

RECURSIVE NodeLineIndex(_, _)
\* index in the output of the node declaration of function k (for
\* k = Len(functions) + 1: of the line that opens the legend)
NodeLineIndex(g, k) ==
    IF k = 1 THEN 2 + Len(g.data)
    ELSE NodeLineIndex(g, k - 1) + 1
         + Len(g.functions[k - 1].inputs) + Len(g.functions[k - 1].outputs)

LegendIndex(g) == NodeLineIndex(g, Len(g.functions) + 1)

RECURSIVE EdgeTotal(_, _)
EdgeTotal(g, k) ==
    IF k = 0 THEN 0
    ELSE EdgeTotal(g, k - 1) + Len(g.functions[k].inputs) + Len(g.functions[k].outputs)

\* indices of the output lines that declare a legend node
LegendNodeLines == {i \in 1..Len(lines) :
                      StartsWith(lines[i], "legend_") /\ Contains(lines[i], " [label=")}

\* indices of the output lines that carry the invisible chain
ChainLines == {i \in 1..Len(lines) : EndsWith(lines[i], "[style=invis]")}

IsPrefix(s, t) == Len(s) <= Len(t) /\ s = SubSeq(t, 1, Len(s))

(***************************************************************************)
(* C1.  Every function owner gets the colour index (i mod 8) + 1, i its    *)
(* 0-based position in the sorted, deduplicated list of owners; with nine  *)
(* or more owners the owner at position 8 has colour 1 like the owner at   *)
(* position 0.                                                              *)
(***************************************************************************)
C1_ColourByRosterPosition ==
    Built =>
        /\ DOMAIN colours = OwnerSet(graph)
        /\ \A o \in OwnerSet(graph) :
              colours[o] = CharAt("12345678", (Rank(graph, o) % 8) + 1)
        /\ \A o, p \in OwnerSet(graph) :
              (Rank(graph, o) = 0 /\ Rank(graph, p) = 8)
                  => (colours[p] = colours[o] /\ colours[p] = "1")

C1_Witness ==
    /\ Built
    /\ \E o, p \in OwnerSet(graph) :
          /\ Rank(graph, o) = 0
          /\ Rank(graph, p) = 8
          /\ colours[o] = "1"
          /\ colours[p] = "1"

(***************************************************************************)
(* C2.  Two renders of graphs with the same set of owners (the function    *)
(* list permuted, or more or fewer functions per owner) give every owner   *)
(* the same colour.                                                         *)
(***************************************************************************)
C2_ColoursDependOnOwnerSetOnly ==
    (prev.valid /\ Rendered /\ OwnerSet(graph) = OwnerSet(prev.graph))
        => colours = prev.colours

C2_Witness ==
    /\ prev.valid
    /\ Rendered
    /\ graph.functions = Reverse(prev.graph.functions)
    /\ graph.functions # prev.graph.functions
    /\ Cardinality(OwnerSet(graph)) >= 3
    /\ colours = prev.colours

C4_NodeDeclarationForm ==
    Built =>
        \A k \in 1..Len(graph.functions) :
            LET f == graph.functions[k]
            IN lines[NodeLineIndex(graph, k)]
                 = f.name \o " [shape=ellipse,style=filled,fillcolor=\"/dark28/"
                          \o colours[f.owner] \o "\"]"

C6_OutputIsAFunctionOfTheGraph ==
    (prev.valid /\ Rendered /\ graph = prev.graph) => lines = prev.lines

(***************************************************************************)
(* C7.  The legend node of every owner is                                   *)
(* legend_<owner> [label=<owner>,style=filled,fillcolor="/dark28/<n>"],    *)
(* with the colour reference of the function nodes of that owner.          *)
(***************************************************************************)
C7_LegendNodeColour ==
    Built =>
        \A o \in OwnerSet(graph) :
            LET ref == "\"/dark28/" \o colours[o] \o "\""
            IN /\ \E i \in 1..Len(lines) :
                     lines[i] = "legend_" \o o \o " [label=" \o o
                                  \o ",style=filled,fillcolor=" \o ref \o "]"
               /\ \A k \in 1..Len(graph.functions) :
                     graph.functions[k].owner = o
                        => Contains(lines[NodeLineIndex(graph, k)], "fillcolor=" \o ref)

(***************************************************************************)
(* C8.  The output starts with the line "digraph G {", the legend is       *)
(* opened by the line "subgraph cluster_legend {", and the last two lines  *)
(* are "}" each.                                                            *)
(***************************************************************************)
C8_Bracketing ==
    Built =>
        /\ lines[1] = "digraph G {"
        /\ lines[LegendIndex(graph)] = "subgraph cluster_legend {"
        /\ lines[Len(lines) - 1] = "}"
        /\ lines[Len(lines)] = "}"

(***************************************************************************)
(* C9.  What the sink accepted is a prefix of the lines, in order.  After  *)
(* the first rejected write there is no further write: render returns the  *)
(* error and the process ends with a non-zero status.  Without a rejected  *)
(* write every line is written once, in order, and render succeeds.        *)
(***************************************************************************)
C9_StopAtFirstWriteFailure ==
    /\ IsPrefix(written, lines)
    /\ result = "Err" =>
          /\ attempts = Len(written) + 1
          /\ pc \in {"return", "exit"}
    /\ result = "Ok" =>
          /\ written = lines
          /\ attempts = Len(lines)
    /\ result = "none" => attempts = Len(written)
    /\ pc = "exit" => (result # "none" /\ (status = 0 <=> result = "Ok"))
    /\ pc \in {"return", "exit"} => (result = "Err" <=> attempts > Len(written))

C9_Witness ==
    /\ pc = "exit"
    /\ result = "Err"
    /\ status # 0
    /\ Len(written) >= 2
    /\ attempts = Len(written) + 1
    /\ Len(written) + 1 < Len(lines)

====
